---- MODULE Spec2Model ----
(***************************************************************************)
(* A model of src/app/app.py, the "User Similarity Search" service: a      *)
(* FastAPI application that serialises a User to text, asks an Ollama      *)
(* endpoint for an embedding of the text and keeps the user as a point of  *)
(* a Qdrant collection.                                                    *)
(*                                                                         *)
(* Python's None is the empty sequence <<>> and a present optional value v *)
(* is <<v>>.  A raised exception is the empty result of an operator that   *)
(* otherwise returns <<value>>.                                            *)
(***************************************************************************)
EXTENDS Integers, Sequences, FiniteSets, Bags, TLC

VARIABLES
    points,          \* the collection's points, in the order scroll walks them (by id)
    issued,          \* how many UUIDs have been given to points of the collection
    inflight,        \* the bag of requests whose handler awaits get_embedding
    last,            \* the most recent response sent to a caller
    created,         \* history: the bodies of the successful create_user responses
    pydantic_major,  \* the major version of the installed pydantic (1 or 2)
    collections,     \* startup: the names of the collections of the vector store
    ipc,             \* startup: each instance's position in the module-level code
    seen,            \* startup: the collection list each instance read
    t_user,          \* serializer run: the User given to user_to_text
    t_text           \* serializer run: <<>> or <<the text returned>>

vars == <<points, issued, inflight, last, created, pydantic_major,
          collections, ipc, seen, t_user, t_text>>

api_vars == <<points, issued, inflight, last, created, pydantic_major>>
startup_vars == <<collections, ipc, seen>>
text_vars == <<t_user, t_text>>

(***************************************************************************)
(* Bounds of the model.                                                    *)
(***************************************************************************)
MaxTasks == 2        \* concurrently running request handlers
MaxCreates == 2      \* create_user requests accepted in one behaviour
MaxInstances == 3    \* service instances starting against one vector store

Instances == 1..MaxInstances

(***************************************************************************)
(* Program constants.                                                      *)
(***************************************************************************)
COLLECTION_NAME == "users1"
VECTOR_SIZE == 768
search_limit == 1
scroll_limit == 100
models_to_try == <<"nomic-embed-text">>

(***************************************************************************)
(* class User(BaseModel): name, bio, interests, location, age = None.      *)
(***************************************************************************)
User(name, bio, interests, location, age) ==
    [name |-> name, bio |-> bio, interests |-> interests,
     location |-> location, age |-> age]

\* The User values request bodies carry in the API specification.
Users ==
    { User("Ann", "dev", <<>>, "Oslo", <<>>),          \* no age given
      User("Ann", "dev", <<>>, "Oslo", <<0>>),         \* age 0
      User("Ann", "dev", <<"go", "tea">>, "Oslo", <<7>>) }

\* The wider set of User values the serializer is run on.
SerializerUsers ==
    { User(n, b, i, l, a) :
        n \in {"Ann", ""}, b \in {"dev", "likes. dots"},
        i \in {<<>>, <<"go">>, <<"go", "tea">>, <<"a, b", "">>},
        l \in {"Oslo", "Rio"},
        a \in {<<>>, <<0>>, <<7>>, <<-1>>, <<130>>} }

(***************************************************************************)
(* ", ".join(seq)                                                          *)
(***************************************************************************)
RECURSIVE join(_, _)
join(sep, seq) ==
    IF Len(seq) = 0 THEN ""
    ELSE IF Len(seq) = 1 THEN seq[1]
    ELSE seq[1] \o sep \o join(sep, Tail(seq))

\* Python's truth value of user.age: None and 0 are false.
truthy(age) == age # <<>> /\ age[1] # 0

user_to_text(user) ==
    LET interests == join(", ", user.interests)
    IN  "Name: " \o user.name \o ". Bio: " \o user.bio
        \o ". Interests: " \o interests
        \o ". Location: " \o user.location
        \o ". Age: " \o (IF truthy(user.age) THEN ToString(user.age[1]) ELSE "Unknown")

(***************************************************************************)
(* class User, pydantic's part.  user.dict() is the payload written to the *)
(* store; User.parse(payload) validates a payload read back from it.  The   *)
(* field is declared "age: int = None": pydantic 1 makes such a field      *)
(* Optional[int]; pydantic 2 leaves the type int, does not validate the    *)
(* default, and rejects an explicit None with a ValidationError.           *)
(***************************************************************************)
user_dict(user) ==
    [name |-> user.name, bio |-> user.bio, interests |-> user.interests,
     location |-> user.location, age |-> user.age]

\* <<the User>>, or <<>> when pydantic raises a ValidationError.
user_from_payload(payload) ==
    IF pydantic_major >= 2 /\ payload.age = <<>>
    THEN <<>>
    ELSE <<User(payload.name, payload.bio, payload.interests,
                payload.location, payload.age)>>

(***************************************************************************)
(* uuid.uuid4(): the n-th UUID generated is a string no earlier call       *)
(* returned.                                                               *)
(***************************************************************************)
uuid_str(n) == "uuid-" \o ToString(n)

\* A mutant: a generator that repeats itself.
uuid4_repeating(n) == uuid_str(1)

uuid4(n) == uuid_str(n + 1)

\* The strings Qdrant accepts as a point id written as a string: UUIDs.
is_point_id(s) == \E n \in 1..(MaxCreates + 1) : s = uuid_str(n)

(***************************************************************************)
(* The Ollama endpoint.  The embedding model is a deterministic function   *)
(* of the prompt; the one modelled maps a text to two features of it (the  *)
(* number of interests it lists, whether it states an age), so that some   *)
(* texts have parallel embeddings and some do not.  A vector <<a, b>> of   *)
(* the model stands for the vector a, b, 0, ..., 0 of VECTOR_SIZE          *)
(* components, and <<>> for the empty list.                                *)
(***************************************************************************)
embedding_of(text) ==
    LET u == CHOOSE u \in Users : user_to_text(u) = text
    IN  <<1 + Len(u.interests), IF truthy(u.age) THEN 1 ELSE 0>>

\* What one POST to /api/embeddings can come to.
Reply(raised, status_code, embedding) ==
    [raised |-> raised, status_code |-> status_code, embedding |-> embedding]

Replies(text) ==
    { Reply(TRUE, 0, <<>>),                       \* transport error / timeout
      Reply(FALSE, 500, <<embedding_of(text)>>),  \* non-200 (whatever its body)
      Reply(FALSE, 200, <<>>),                    \* 200, embedding null or missing
      Reply(FALSE, 200, << <<>> >>),              \* 200, embedding []
      Reply(FALSE, 200, <<embedding_of(text)>>) }

ReplySeqs(text) == [1..Len(models_to_try) -> Replies(text)]

\* A mutant: the status code is not looked at.
RECURSIVE get_embedding_any_status(_)
get_embedding_any_status(replies) ==
    IF replies = <<>> THEN <<>>
    ELSE IF Head(replies).raised THEN get_embedding_any_status(Tail(replies))
    ELSE IF Head(replies).embedding = <<>> THEN get_embedding_any_status(Tail(replies))
    ELSE Head(replies).embedding

\* get_embedding: <<the embedding>>, or <<>> for HTTPException(500).
\* replies[i] is the reply to the request made for models_to_try[i].
RECURSIVE get_embedding(_)
get_embedding(replies) ==
    IF replies = <<>> THEN <<>>
    ELSE LET response == Head(replies)
         IN  IF response.raised THEN get_embedding(Tail(replies))
             ELSE IF response.status_code # 200 THEN get_embedding(Tail(replies))
             ELSE IF response.embedding = <<>> THEN get_embedding(Tail(replies))
             ELSE response.embedding

(***************************************************************************)
(* The Qdrant collection, as the handlers use it.  A point is              *)
(* [id, vector, payload]; points is kept in the order scroll walks the     *)
(* collection, which is the order of the ids.                              *)
(***************************************************************************)
PointStruct(id, vector, payload) == [id |-> id, vector |-> vector, payload |-> payload]

point_ids(pts) == { pts[i].id : i \in 1..Len(pts) }

\* The number of components of the vector a model vector stands for.
vector_size(vector) == IF vector = <<>> THEN 0 ELSE VECTOR_SIZE

\* A mutant: an upsert that rewrites the collection.
qdrant_upsert_replacing(pts, point, rank) == [raised |-> FALSE, points |-> <<point>>]

\* qdrant.upsert: insert or replace by id.  rank is the number of stored ids
\* the new id sorts above: a uuid4 sorts anywhere among them.  A vector that
\* is not of the collection's size is rejected by the server (400), which the
\* client raises.
qdrant_upsert(pts, point, rank) ==
    IF vector_size(point.vector) # VECTOR_SIZE
    THEN [raised |-> TRUE, points |-> pts]
    ELSE IF point.id \in point_ids(pts)
    THEN [raised |-> FALSE,
          points |-> [i \in 1..Len(pts) |->
                        IF pts[i].id = point.id THEN point ELSE pts[i]]]
    ELSE [raised |-> FALSE,
          points |-> SubSeq(pts, 1, rank) \o <<point>> \o SubSeq(pts, rank + 1, Len(pts))]

dot(a, b) == a[1] * b[1] + a[2] * b[2]

\* Cosine similarity dot(q, v) / (|q| |v|), kept exact: <<dot(q, v), |q|^2 |v|^2>>.
cosine(q, v) == <<dot(q, v), dot(q, q) * dot(v, v)>>

\* x |-> sign(x) x^2 is increasing, so scores compare by their signed squares.
signed_square(x) == IF x >= 0 THEN x * x ELSE 0 - (x * x)
score_less(s, t) == signed_square(s[1]) * t[2] < signed_square(t[1]) * s[2]

ScoredPoint(point, score) == [id |-> point.id, payload |-> point.payload, score |-> score]

\* qdrant.search with limit = 1 and no score threshold: the point of the
\* highest cosine similarity (the first such in the collection's order).  A
\* query vector that is not of the collection's size is rejected by the
\* server (400), which the client raises.
qdrant_search(pts, query_vector, limit) ==
    IF vector_size(query_vector) # VECTOR_SIZE
    THEN [raised |-> TRUE, results |-> <<>>]
    ELSE IF pts = <<>> \/ limit < 1 THEN [raised |-> FALSE, results |-> <<>>]
    ELSE LET s(i) == cosine(query_vector, pts[i].vector)
             best == CHOOSE i \in 1..Len(pts) :
                        \A j \in 1..Len(pts) :
                            /\ ~ score_less(s(i), s(j))
                            /\ (j < i => score_less(s(j), s(i)))
         IN  [raised |-> FALSE, results |-> <<ScoredPoint(pts[best], s(best))>>]

\* qdrant.retrieve: the points of the given ids.  An id string that is not a
\* UUID is rejected by the server (400), which the client raises.
qdrant_retrieve(pts, ids) ==
    IF \E k \in 1..Len(ids) : ~ is_point_id(ids[k])
    THEN [raised |-> TRUE, results |-> <<>>]
    ELSE [raised |-> FALSE,
          results |-> SelectSeq(pts, LAMBDA p : \E k \in 1..Len(ids) : ids[k] = p.id)]

\* qdrant.scroll(limit)[0]: the first limit points.
qdrant_scroll(pts, limit) ==
    SubSeq(pts, 1, IF Len(pts) < limit THEN Len(pts) ELSE limit)

(***************************************************************************)
(* The HTTP API.  A handler runs on the event loop: it is suspended only   *)
(* at "await get_embedding(...)"; the Qdrant client calls are synchronous, *)
(* so what follows the await runs as one step.  Handlers hold no state but *)
(* their request, so the suspended ones are a bag of requests.             *)
(***************************************************************************)
Request(op, user) == [op |-> op, user |-> user, user_text |-> user_to_text(user)]

\* A response as the caller sees it, with the request it answers: the body's
\* id, user, similarity_score, or the list of entries of list_users.
Response(op, user, user_id, replies, status_code, detail, id, ruser, score, entries) ==
    [op |-> op, user |-> user, user_id |-> user_id, replies |-> replies,
     status_code |-> status_code, detail |-> detail,
     id |-> id, ruser |-> ruser, similarity_score |-> score, entries |-> entries]

NoResponse == Response("none", <<>>, "", <<>>, 0, "", "", <<>>, <<>>, <<>>)

EMBEDDING_FAILED == "Failed to generate embedding with any available model"
INTERNAL_ERROR == "Internal Server Error"

Suspend(req) == inflight (+) SetToBag({req})
Resume(req) == inflight (-) SetToBag({req})

creates_in_flight ==
    LET creates == { r \in BagToSet(inflight) : r.op = "create" }
    IN  BagCardinality([r \in creates |-> inflight[r]])

\* create_user, to the await: user_text = user_to_text(user).
create_user_begin(user) ==
    /\ BagCardinality(inflight) < MaxTasks
    /\ Len(created) + creates_in_flight < MaxCreates
    /\ inflight' = Suspend(Request("create", user))
    /\ UNCHANGED <<points, issued, last, created, pydantic_major>>
    /\ UNCHANGED <<startup_vars, text_vars>>

\* create_user, from the await: the embedding or the 500, uuid4, upsert, return.
create_user_end(req) ==
    /\ BagIn(req, inflight)
    /\ req.op = "create"
    /\ \E replies \in ReplySeqs(req.user_text), rank \in 0..Len(points) :
         LET embedding == get_embedding(replies)
             user_id == uuid4(issued)
             upserted == qdrant_upsert(points,
                             PointStruct(user_id, embedding[1], user_dict(req.user)),
                             rank)
         IN  IF embedding = <<>>
             THEN /\ last' = Response("create", <<req.user>>, "", replies, 500,
                                      EMBEDDING_FAILED, "", <<>>, <<>>, <<>>)
                  /\ UNCHANGED <<points, issued, created>>
             ELSE IF upserted.raised
             THEN /\ last' = Response("create", <<req.user>>, "", replies, 500,
                                      INTERNAL_ERROR, "", <<>>, <<>>, <<>>)
                  /\ UNCHANGED <<points, issued, created>>
             ELSE /\ points' = upserted.points
                  /\ issued' = issued + 1
                  /\ created' = Append(created, [id |-> user_id, user |-> req.user])
                  /\ last' = Response("create", <<req.user>>, "", replies, 200,
                                      "", user_id, <<req.user>>, <<>>, <<>>)
    /\ inflight' = Resume(req)
    /\ UNCHANGED <<pydantic_major, startup_vars, text_vars>>

\* find_similar_user, to the await.
find_similar_user_begin(user) ==
    /\ BagCardinality(inflight) < MaxTasks
    /\ inflight' = Suspend(Request("find", user))
    /\ UNCHANGED <<points, issued, last, created, pydantic_major>>
    /\ UNCHANGED <<startup_vars, text_vars>>

\* find_similar_user, from the await: search, 404 on no result, map the top hit.
find_similar_user_end(req) ==
    /\ BagIn(req, inflight)
    /\ req.op = "find"
    /\ \E replies \in ReplySeqs(req.user_text) :
         LET embedding == get_embedding(replies)
         IN  IF embedding = <<>>
             THEN last' = Response("find", <<req.user>>, "", replies, 500,
                                   EMBEDDING_FAILED, "", <<>>, <<>>, <<>>)
             ELSE LET searched == qdrant_search(points, embedding[1], search_limit)
                      search_results == searched.results
                  IN  IF searched.raised
                      THEN last' = Response("find", <<req.user>>, "", replies, 500,
                                            INTERNAL_ERROR, "", <<>>, <<>>, <<>>)
                      ELSE IF search_results = <<>>
                      THEN last' = Response("find", <<req.user>>, "", replies, 404,
                                            "No similar users found", "", <<>>, <<>>, <<>>)
                      ELSE LET top_result == search_results[1]
                               user == user_from_payload(top_result.payload)
                           IN  IF user = <<>>
                               THEN last' = Response("find", <<req.user>>, "", replies,
                                                     500, INTERNAL_ERROR, "", <<>>, <<>>, <<>>)
                               ELSE last' = Response("find", <<req.user>>, "", replies,
                                                     200, "", top_result.id, user,
                                                     <<top_result.score>>, <<>>)
    /\ inflight' = Resume(req)
    /\ UNCHANGED <<points, issued, created, pydantic_major>>
    /\ UNCHANGED <<startup_vars, text_vars>>

\* The path parameters get_user is called with: ids of stored points, a UUID no
\* point has, and a string that is no UUID.
RequestIds ==
    { created[i].id : i \in 1..Len(created) }
        \cup {uuid_str(MaxCreates + 1), "not-a-uuid"}

\* get_user: it has no await.
get_user(user_id) ==
    /\ LET retrieved == qdrant_retrieve(points, <<user_id>>)
           results == retrieved.results
       IN  IF retrieved.raised
           THEN last' = Response("get", <<>>, user_id, <<>>, 500, INTERNAL_ERROR,
                                 "", <<>>, <<>>, <<>>)
           ELSE IF results = <<>>
           THEN last' = Response("get", <<>>, user_id, <<>>, 404, "User not found",
                                 "", <<>>, <<>>, <<>>)
           ELSE LET user == user_from_payload(results[1].payload)
                IN  IF user = <<>>
                    THEN last' = Response("get", <<>>, user_id, <<>>, 500, INTERNAL_ERROR,
                                          "", <<>>, <<>>, <<>>)
                    ELSE last' = Response("get", <<>>, user_id, <<>>, 200, "",
                                          results[1].id, user, <<>>, <<>>)
    /\ UNCHANGED <<points, issued, inflight, created, pydantic_major>>
    /\ UNCHANGED <<startup_vars, text_vars>>

\* list_users: it has no await.
list_users ==
    /\ LET results == qdrant_scroll(points, scroll_limit)
           users == [i \in 1..Len(results) |-> user_from_payload(results[i].payload)]
       IN  IF \E i \in 1..Len(results) : users[i] = <<>>
           THEN last' = Response("list", <<>>, "", <<>>, 500, INTERNAL_ERROR,
                                 "", <<>>, <<>>, <<>>)
           ELSE last' = Response("list", <<>>, "", <<>>, 200, "", "", <<>>, <<>>,
                                 [i \in 1..Len(results) |->
                                     [id |-> results[i].id, user |-> users[i][1]]])
    /\ UNCHANGED <<points, issued, inflight, created, pydantic_major>>
    /\ UNCHANGED <<startup_vars, text_vars>>

(***************************************************************************)
(* Startup: the module-level code every instance of the service runs.  It  *)
(* lists the collections, and creates COLLECTION_NAME when the list does   *)
(* not name it; an exception is printed and raised again, which ends the   *)
(* process.  The two Qdrant calls of one instance are two steps, and other *)
(* instances may run between them.                                         *)
(***************************************************************************)
Collection(name, size, distance) == [name |-> name, size |-> size, distance |-> distance]

collection_names(cols) == { c.name : c \in cols }

\* qdrant.create_collection: the server refuses a name it already has (409),
\* which the client raises.
qdrant_create_collection(cols, name, size, distance) ==
    IF name \in collection_names(cols)
    THEN [raised |-> TRUE, collections |-> cols]
    ELSE [raised |-> FALSE, collections |-> cols \cup {Collection(name, size, distance)}]

\* collections = qdrant.get_collections().collections
startup_get_collections(i) ==
    /\ ipc[i] = "start"
    /\ seen' = [seen EXCEPT ![i] = collection_names(collections)]
    /\ ipc' = [ipc EXCEPT ![i] = "listed"]
    /\ UNCHANGED <<collections, api_vars, text_vars>>

\* if not collection_exists: qdrant.create_collection(...); except: raise
startup_create_collection(i) ==
    /\ ipc[i] = "listed"
    /\ COLLECTION_NAME \notin seen[i]
    /\ LET made == qdrant_create_collection(collections, COLLECTION_NAME,
                                            VECTOR_SIZE, "Cosine")
       IN  /\ collections' = made.collections
           /\ ipc' = [ipc EXCEPT ![i] = IF made.raised THEN "aborted" ELSE "serving"]
    /\ UNCHANGED <<seen, api_vars, text_vars>>

\* else: print("Collection ... already exists")
startup_collection_exists(i) ==
    /\ ipc[i] = "listed"
    /\ COLLECTION_NAME \in seen[i]
    /\ ipc' = [ipc EXCEPT ![i] = "serving"]
    /\ UNCHANGED <<collections, seen, api_vars, text_vars>>

\* Startup completed by instances that started one after another against a
\* store without collections: the first read an empty list and created
\* COLLECTION_NAME, every later one read a list that names it.
StartupDone ==
    /\ collections = {Collection(COLLECTION_NAME, VECTOR_SIZE, "Cosine")}
    /\ ipc = [i \in Instances |-> "serving"]
    /\ seen = [i \in Instances |-> IF i = 1 THEN {} ELSE {COLLECTION_NAME}]

TextIdle ==
    /\ t_user = User("", "", <<>>, "", <<>>)
    /\ t_text = <<>>

\* The service, started: the collection is there and holds no point.
Init ==
    /\ points = <<>>
    /\ issued = 0
    /\ inflight = EmptyBag
    /\ last = NoResponse
    /\ created = <<>>
    /\ pydantic_major \in {1, 2}
    /\ StartupDone
    /\ TextIdle

Next ==
    \/ \E user \in Users : create_user_begin(user)
    \/ \E req \in BagToSet(inflight) : create_user_end(req)
    \/ \E user \in Users : find_similar_user_begin(user)
    \/ \E req \in BagToSet(inflight) : find_similar_user_end(req)
    \/ \E user_id \in RequestIds : get_user(user_id)
    \/ list_users

Spec == Init /\ [][Next]_vars

\* Instances starting against a vector store that holds some collections.
InitStartup ==
    /\ collections \in SUBSET { Collection(COLLECTION_NAME, VECTOR_SIZE, "Cosine"),
                                Collection("other", 4, "Dot") }
    /\ ipc = [i \in Instances |-> "start"]
    /\ seen = [i \in Instances |-> {}]
    /\ points = <<>>
    /\ issued = 0
    /\ inflight = EmptyBag
    /\ last = NoResponse
    /\ created = <<>>
    /\ pydantic_major = 2
    /\ TextIdle

NextStartup ==
    \/ \E i \in Instances : startup_get_collections(i)
    \/ \E i \in Instances : startup_create_collection(i)
    \/ \E i \in Instances : startup_collection_exists(i)

SpecStartup == InitStartup /\ [][NextStartup]_vars

(***************************************************************************)
(* The serializer alone: user_to_text applied to one User.                 *)
(***************************************************************************)
serialize ==
    /\ t_text = <<>>
    /\ t_text' = <<user_to_text(t_user)>>
    /\ UNCHANGED <<t_user, api_vars, startup_vars>>

InitText ==
    /\ t_user \in SerializerUsers
    /\ t_text = <<>>
    /\ points = <<>>
    /\ issued = 0
    /\ inflight = EmptyBag
    /\ last = NoResponse
    /\ created = <<>>
    /\ pydantic_major = 2
    /\ StartupDone

NextText == serialize

SpecText == InitText /\ [][NextText]_vars

(***************************************************************************)
(* The claims.  last is the response of the step that has just been taken; *)
(* a step that resumes a handler takes its request out of inflight.        *)
(***************************************************************************)

\* Every candidate model's reply is a failure: a transport error, a status
\* other than 200, or no embedding.
all_failed(replies) ==
    \A k \in 1..Len(replies) :
        \/ replies[k].raised
        \/ replies[k].status_code # 200
        \/ replies[k].embedding = <<>>

\* The step resumes the handler of request req, and last' is its response.
resumes(req) ==
    /\ BagIn(req, inflight)
    /\ inflight' = inflight (-) SetToBag({req})
    /\ last'.op = req.op
    /\ last'.user = <<req.user>>

\* Some candidate model's reply is a 200 that carries a vector of the
\* collection's size: the embedding step has produced an embedding.
embedded(replies) ==
    \E k \in 1..Len(replies) :
        /\ ~ replies[k].raised
        /\ replies[k].status_code = 200
        /\ replies[k].embedding # <<>>
        /\ vector_size(replies[k].embedding[1]) = VECTOR_SIZE

max_score(score) == score[1] > 0 /\ score[1] * score[1] = score[2]

\* C1: when every candidate embedding model fails, the create_user or
\* find_similar_user request answers HTTP 500 with the embedding-failure detail,
\* and the collection's points are exactly those before the step: no upsert.
C1_EmbeddingFailureWritesNothing ==
    [][ \A req \in BagToSet(inflight) :
            (resumes(req) /\ all_failed(last'.replies))
                => /\ last'.status_code = 500
                   /\ last'.detail = EMBEDDING_FAILED
                   /\ points' = points ]_vars

\* C1's case: a create_user whose embedding failed has answered 500 while the
\* collection holds a point.
C1_Witness ==
    /\ last.op = "create"
    /\ last.replies # <<>>
    /\ all_failed(last.replies)
    /\ last.status_code = 500
    /\ points # <<>>

\* C2: a get_user of an id that a successful create_user returned answers 200
\* with that id and a User equal, field by field, to the one created.
C2_RoundTrip ==
    \A i \in 1..Len(created) :
        (last.op = "get" /\ last.user_id = created[i].id)
            => /\ last.status_code = 200
               /\ last.id = created[i].id
               /\ last.ruser # <<>>
               /\ last.ruser[1].name = created[i].user.name
               /\ last.ruser[1].bio = created[i].user.bio
               /\ last.ruser[1].interests = created[i].user.interests
               /\ last.ruser[1].location = created[i].user.location
               /\ last.ruser[1].age = created[i].user.age

\* C3: the ids create_user returned are pairwise distinct, no two points share
\* an id, every successful create has added exactly one point, and the point of
\* each returned id carries the created User.
C3_DistinctIdsNoDedup ==
    /\ \A i, j \in 1..Len(created) : i # j => created[i].id # created[j].id
    /\ \A i, j \in 1..Len(points) : i # j => points[i].id # points[j].id
    /\ Len(points) = Len(created)
    /\ \A i \in 1..Len(created) :
          \E k \in 1..Len(points) :
              /\ points[k].id = created[i].id
              /\ points[k].payload = user_dict(created[i].user)

\* C3's case: two create_user calls with identical User data have succeeded.
C3_Witness ==
    \E i, j \in 1..Len(created) :
        /\ i # j
        /\ created[i].user = created[j].user
        /\ created[i].id # created[j].id
        /\ Len(points) = 2

\* C4: get_user of a string that is the id of no stored point answers 404
\* 'User not found', whatever the string.
C4_UnknownIdIs404 ==
    (last.op = "get" /\ last.user_id \notin point_ids(points))
        => /\ last.status_code = 404
           /\ last.detail = "User not found"

\* C5: find_similar_user answers 404 exactly when the embedding succeeded and
\* the collection is empty; with a successful embedding and a point in the
\* collection it answers 200 with a stored point's id and User.
C5_FindSimilar404IffEmpty ==
    last.op = "find" =>
        /\ last.status_code = 404 <=> (embedded(last.replies) /\ points = <<>>)
        /\ (embedded(last.replies) /\ points # <<>>)
              => /\ last.status_code = 200
                 /\ \E k \in 1..Len(points) :
                        /\ points[k].id = last.id
                        /\ <<points[k].payload>> = <<user_dict(last.ruser[1])>>

\* C6: list_users answers 200 with min(N, 100) entries, each the id and User of
\* a distinct stored point (an empty list for an empty collection).
C6_ListReturnsUpToLimit ==
    last.op = "list" =>
        /\ last.status_code = 200
        /\ Len(last.entries) = (IF Len(points) <= 100 THEN Len(points) ELSE 100)
        /\ \A i, j \in 1..Len(last.entries) :
              i # j => last.entries[i].id # last.entries[j].id
        /\ \A i \in 1..Len(last.entries) :
              \E k \in 1..Len(points) :
                  /\ points[k].id = last.entries[i].id
                  /\ points[k].payload = user_dict(last.entries[i].user)

\* C7: when the collection holds exactly one point, created from User u, a
\* find_similar_user(u) whose embedding succeeds answers 200 with that point's
\* id, a User equal to u and the maximal similarity score.
C7_FindSelf ==
    (/\ last.op = "find"
     /\ embedded(last.replies)
     /\ Len(points) = 1
     /\ Len(created) = 1
     /\ points[1].id = created[1].id
     /\ last.user = <<created[1].user>>)
        => /\ last.status_code = 200
           /\ last.id = created[1].id
           /\ last.ruser = <<created[1].user>>
           /\ last.similarity_score # <<>>
           /\ max_score(last.similarity_score[1])

\* C8: user_to_text yields 'Name: <name>. Bio: <bio>. Interests: <interests
\* joined by ", ">. Location: <location>. Age: <A>' with A the decimal age
\* whenever the User has an age, and 'Unknown' only when it has none.
C8_TextFormat ==
    t_text # <<>> =>
        t_text[1] = "Name: " \o t_user.name \o ". Bio: " \o t_user.bio
                    \o ". Interests: " \o join(", ", t_user.interests)
                    \o ". Location: " \o t_user.location
                    \o ". Age: " \o (IF t_user.age # <<>>
                                     THEN ToString(t_user.age[1]) ELSE "Unknown")

\* C9: no instance aborts its startup, and once every instance has finished
\* the collection exists.
C9_ConcurrentStartupSafe ==
    /\ \A i \in Instances : ipc[i] # "aborted"
    /\ (\A i \in Instances : ipc[i] = "serving")
          => COLLECTION_NAME \in collection_names(collections)

\* C10: a step changes the collection's points only by resuming a create_user
\* that answers 200, and then it adds one point of a new id; whatever the step,
\* every point stored before it is stored after it with the same id, vector
\* and payload.
C10_PointsOnlyGrowByCreate ==
    [][ /\ \A k \in 1..Len(points) : \E j \in 1..Len(points') : points'[j] = points[k]
        /\ points' # points
              => /\ \E req \in BagToSet(inflight) : req.op = "create" /\ resumes(req)
                 /\ last'.status_code = 200
                 /\ Len(points') = Len(points) + 1
                 /\ last'.id \notin point_ids(points)
                 /\ last'.id \in point_ids(points')
        /\ (\E req \in BagToSet(inflight) :
                req.op = "create" /\ resumes(req) /\ last'.status_code = 200)
              => Len(points') = Len(points) + 1 ]_vars

\* C10's case: a create_user has added a point to a collection that held
\* others, and find_similar_user, get_user and list_users are enabled there.
C10_Witness ==
    /\ last.op = "create"
    /\ last.status_code = 200
    /\ Len(points) >= 2
    /\ \E k \in 1..Len(points) : points[k].id # last.id

====
